---------------------------- MODULE Spec2Model ----------------------------
(***************************************************************************)
(* A model of pyredfin.Redfin (src/pyredfin.py): a client that turns       *)
(* method calls into HTTP GET requests and reshapes the responses.         *)
(*                                                                         *)
(* Python values are tagged records [t, v]:                                *)
(*   str   : v is the sequence of its characters (1-character strings)     *)
(*   bytes : v is the sequence of its bytes (ASCII, written as characters) *)
(*   int   : v is the integer            bool : v is TRUE or FALSE         *)
(*   None  : v is 0                                                        *)
(*   list  : v is the sequence of items                                    *)
(*   dict  : v is a function from keys to values                           *)
(* A dict decoded from JSON is keyed by character sequences.  The names    *)
(* of query parameters are never sliced or formatted by the program and    *)
(* are written as TLA+ strings.                                            *)
(*                                                                         *)
(* A Python call either returns or raises: operators that model code       *)
(* yield [exc, val], exc = "None" meaning a normal return of val.          *)
(***************************************************************************)
EXTENDS Integers, Sequences, FiniteSets, TLC

VARIABLES
    method,    \* the public method called last, "idle" once its result is taken
    args,      \* the arguments of that call
    now,       \* the wall clock read by that call: [year, month]
    sent,      \* the HTTP requests that call handed to requests.get, in order
    replies,   \* what the network did with each of these requests, in order
    steps,     \* the internal steps that call ran, in order
    decoded,   \* what _format_response yielded in that call (NotDecoded if not run)
    outcome,   \* how the call ended: [exc, val], exc = "None" for a return of val
    heap,      \* the dict objects headers refer to: object id -> its items now
    clients,   \* the Redfin objects built so far: [headers (an object id), built]
    touched,   \* the clients whose headers the caller has assigned into
    held,      \* the items now in the params dict the caller keeps between calls
    given      \* the items the caller put into that dict when making it

\* what lives longer than one call
objects == <<heap, clients, touched, held, given>>

vars == <<method, args, now, sent, replies, steps, decoded, outcome,
          heap, clients, touched, held, given>>

---------------------------------------------------------------------------
(* Python values *)

PyStr(s) == [t |-> "str", v |-> s]
PyBytes(s) == [t |-> "bytes", v |-> s]
PyInt(n) == [t |-> "int", v |-> n]
PyBool(b) == [t |-> "bool", v |-> b]
PyNone == [t |-> "None", v |-> 0]
PyList(s) == [t |-> "list", v |-> s]
PyDict(f) == [t |-> "dict", v |-> f]

EmptyMap == [k \in {} |-> PyNone]

\* d with key k set to x (d[k] = x in Python, or a later item of a literal)
MapSet(d, k, x) == [j \in (DOMAIN d) \cup {k} |-> IF j = k THEN x ELSE d[j]]

\* {**a, **b}: the items of a, then those of b, a later key replacing an earlier
MapMerge(a, b) ==
    [j \in (DOMAIN a) \cup (DOMAIN b) |-> IF j \in DOMAIN b THEN b[j] ELSE a[j]]

Ret(x) == [exc |-> "None", val |-> x]
Raise(e) == [exc |-> e, val |-> PyNone]

\* a == b of Python for the values the model passes (no bool/int mixing)
PyEq(a, b) == a.t = b.t /\ a.v = b.v

---------------------------------------------------------------------------
(* Characters and string literals of the source *)

Digits == <<"0", "1", "2", "3", "4", "5", "6", "7", "8", "9">>

IsDigit(c) == \E i \in 1..10 : Digits[i] = c

DigitVal(c) == (CHOOSE i \in 1..10 : Digits[i] = c) - 1

RECURSIVE IntToStr(_)
\* str(n) for an int n >= 0
IntToStr(n) ==
    IF n < 10 THEN <<Digits[n + 1]>>
    ELSE IntToStr(n \div 10) \o <<Digits[(n % 10) + 1]>>

\* "https://redfin.com/stingray/"
L_base ==
    <<"h", "t", "t", "p", "s", ":", "/", "/", "r", "e", "d", "f", "i", "n", ".", "c", "o", "m", "/", "s", "t", "i", "n", "g", "r", "a", "y", "/">>
\* "api/home/details/"
L_home_details ==
    <<"a", "p", "i", "/", "h", "o", "m", "e", "/", "d", "e", "t", "a", "i", "l", "s", "/">>
\* "api/region/"
L_api_region ==
    <<"a", "p", "i", "/", "r", "e", "g", "i", "o", "n", "/">>
\* "do/location-autocomplete"
L_location_autocomplete ==
    <<"d", "o", "/", "l", "o", "c", "a", "t", "i", "o", "n", "-", "a", "u", "t", "o", "c", "o", "m", "p", "l", "e", "t", "e">>
\* "api/gis-csv"
L_gis_csv ==
    <<"a", "p", "i", "/", "g", "i", "s", "-", "c", "s", "v">>
\* "aboveTheFold"
L_aboveTheFold ==
    <<"a", "b", "o", "v", "e", "T", "h", "e", "F", "o", "l", "d">>
\* "belowTheFold"
L_belowTheFold ==
    <<"b", "e", "l", "o", "w", "T", "h", "e", "F", "o", "l", "d">>
\* "avmHistoricalData"
L_avmHistoricalData ==
    <<"a", "v", "m", "H", "i", "s", "t", "o", "r", "i", "c", "a", "l", "D", "a", "t", "a">>
\* "api/home/details/primaryRegionInfo"
L_primaryRegionInfo ==
    <<"a", "p", "i", "/", "h", "o", "m", "e", "/", "d", "e", "t", "a", "i", "l", "s", "/", "p", "r", "i", "m", "a", "r", "y", "R", "e", "g", "i", "o", "n", "I", "n", "f", "o">>
\* "api/region/shared-region-info"
L_shared_region_info ==
    <<"a", "p", "i", "/", "r", "e", "g", "i", "o", "n", "/", "s", "h", "a", "r", "e", "d", "-", "r", "e", "g", "i", "o", "n", "-", "i", "n", "f", "o">>
\* "api/gis/recently-sold"
L_recently_sold ==
    <<"a", "p", "i", "/", "g", "i", "s", "/", "r", "e", "c", "e", "n", "t", "l", "y", "-", "s", "o", "l", "d">>
\* "trends"
L_trends ==
    <<"t", "r", "e", "n", "d", "s">>
\* "payload"
K_payload ==
    <<"p", "a", "y", "l", "o", "a", "d">>
\* "sections"
K_sections ==
    <<"s", "e", "c", "t", "i", "o", "n", "s">>
\* "rows"
K_rows ==
    <<"r", "o", "w", "s">>
\* "id"
K_id ==
    <<"i", "d">>
\* "mediaBrowserInfo"
K_mediaBrowserInfo ==
    <<"m", "e", "d", "i", "a", "B", "r", "o", "w", "s", "e", "r", "I", "n", "f", "o">>
\* "photos"
K_photos ==
    <<"p", "h", "o", "t", "o", "s">>
\* "photoUrls"
K_photoUrls ==
    <<"p", "h", "o", "t", "o", "U", "r", "l", "s">>
\* "nonFullScreenPhotoUrlCompressed"
K_nonFullScreenPhotoUrlCompressed ==
    <<"n", "o", "n", "F", "u", "l", "l", "S", "c", "r", "e", "e", "n", "P", "h", "o", "t", "o", "U", "r", "l", "C", "o", "m", "p", "r", "e", "s", "s", "e", "d">>
\* "propertyTimeSeries"
K_propertyTimeSeries ==
    <<"p", "r", "o", "p", "e", "r", "t", "y", "T", "i", "m", "e", "S", "e", "r", "i", "e", "s">>

---------------------------------------------------------------------------
(* json.loads, on the texts of the model: objects, arrays, strings without *)
(* escapes, non-negative integers, null, true and false, with spaces as    *)
(* the only whitespace.  No text of the model holds a backslash, a sign, a *)
(* fraction or an exponent, so those parts of the grammar are left out.    *)
(* A parse yields [ok, val, pos]: pos is the index after the value.        *)

JFail == [ok |-> FALSE, val |-> PyNone, pos |-> 0]
JOk(x, p) == [ok |-> TRUE, val |-> x, pos |-> p]

RECURSIVE SkipWs(_, _)
SkipWs(s, i) == IF i <= Len(s) /\ s[i] = " " THEN SkipWs(s, i + 1) ELSE i

\* whether s holds the characters of lit from index i on
StartsAt(s, i, lit) ==
    /\ i + Len(lit) - 1 <= Len(s)
    /\ \A k \in 1..Len(lit) : s[i + k - 1] = lit[k]

RECURSIVE ScanString(_, _, _)
\* the characters from index i up to the closing quote
ScanString(s, i, acc) ==
    IF i > Len(s) THEN JFail
    ELSE IF s[i] = "\"" THEN JOk(PyStr(acc), i + 1)
    ELSE ScanString(s, i + 1, Append(acc, s[i]))

RECURSIVE ScanDigits(_, _, _)
ScanDigits(s, i, n) ==
    IF i <= Len(s) /\ IsDigit(s[i])
    THEN ScanDigits(s, i + 1, 10 * n + DigitVal(s[i]))
    ELSE JOk(PyInt(n), i)

\* the number pattern 0|[1-9][0-9]* : a leading 0 is a number by itself
ScanNumber(s, i) ==
    IF s[i] = "0" THEN JOk(PyInt(0), i + 1) ELSE ScanDigits(s, i, 0)

RECURSIVE ScanValue(_, _), ScanArray(_, _, _), ScanObject(_, _, _)
ScanValue(s, i) ==
    IF i > Len(s) THEN JFail
    ELSE IF s[i] = "{" THEN
        LET j == SkipWs(s, i + 1) IN
        IF j <= Len(s) /\ s[j] = "}" THEN JOk(PyDict(EmptyMap), j + 1)
        ELSE ScanObject(s, j, EmptyMap)
    ELSE IF s[i] = "[" THEN
        LET j == SkipWs(s, i + 1) IN
        IF j <= Len(s) /\ s[j] = "]" THEN JOk(PyList(<<>>), j + 1)
        ELSE ScanArray(s, j, <<>>)
    ELSE IF s[i] = "\"" THEN ScanString(s, i + 1, <<>>)
    ELSE IF IsDigit(s[i]) THEN ScanNumber(s, i)
    ELSE IF StartsAt(s, i, <<"n", "u", "l", "l">>) THEN JOk(PyNone, i + 4)
    ELSE IF StartsAt(s, i, <<"t", "r", "u", "e">>) THEN JOk(PyBool(TRUE), i + 4)
    ELSE IF StartsAt(s, i, <<"f", "a", "l", "s", "e">>) THEN JOk(PyBool(FALSE), i + 5)
    ELSE JFail

\* the items of an array from index i (the first character of an item) on
ScanArray(s, i, acc) ==
    LET item == ScanValue(s, i)
        j == SkipWs(s, item.pos)
    IN  CASE ~item.ok \/ j > Len(s) -> JFail
          [] s[j] = "]" -> JOk(PyList(Append(acc, item.val)), j + 1)
          [] s[j] = "," -> ScanArray(s, SkipWs(s, j + 1), Append(acc, item.val))
          [] OTHER -> JFail

\* the pairs of an object from index i (the opening quote of a key) on
ScanObject(s, i, acc) ==
    IF i > Len(s) \/ s[i] # "\"" THEN JFail
    ELSE
        LET key == ScanString(s, i + 1, <<>>) IN
        IF ~key.ok THEN JFail
        ELSE
            LET c == SkipWs(s, key.pos) IN
            IF c > Len(s) \/ s[c] # ":" THEN JFail
            ELSE
                LET item == ScanValue(s, SkipWs(s, c + 1)) IN
                IF ~item.ok THEN JFail
                ELSE
                    LET j == SkipWs(s, item.pos)
                        pairs == MapSet(acc, key.val.v, item.val)
                    IN  IF j > Len(s) THEN JFail
                        ELSE IF s[j] = "}" THEN JOk(PyDict(pairs), j + 1)
                        ELSE IF s[j] = "," THEN ScanObject(s, SkipWs(s, j + 1), pairs)
                        ELSE JFail

\* json.loads(s): the value of the whole text, or JSONDecodeError
JsonLoads(s) ==
    LET r == ScanValue(s, SkipWs(s, 1)) IN
    IF r.ok /\ SkipWs(s, r.pos) > Len(s) THEN Ret(r.val)
    ELSE Raise("JSONDecodeError")

---------------------------------------------------------------------------
(* Subscripting, obj[key] of Python, for the values a decoded payload holds *)

\* a subscript that gives None for a list index out of range
GetItemLenient(obj, key) ==
    IF obj.t = "dict" THEN
        IF key.t = "str" /\ key.v \in DOMAIN obj.v THEN Ret(obj.v[key.v])
        ELSE Raise("KeyError")
    ELSE IF obj.t = "list" THEN
        IF key.t # "int" THEN Raise("TypeError")
        ELSE IF key.v + 1 \in 1..Len(obj.v) THEN Ret(obj.v[key.v + 1])
        ELSE Ret(PyNone)
    ELSE Raise("TypeError")

GetItem(obj, key) ==
    IF obj.t = "dict" THEN
        IF key.t = "str" /\ key.v \in DOMAIN obj.v THEN Ret(obj.v[key.v])
        ELSE Raise("KeyError")
    ELSE IF obj.t = "list" THEN
        IF key.t # "int" THEN Raise("TypeError")
        ELSE IF key.v + 1 \in 1..Len(obj.v) THEN Ret(obj.v[key.v + 1])
        ELSE Raise("IndexError")
    ELSE IF obj.t = "str" THEN
        IF key.t # "int" THEN Raise("TypeError")
        ELSE IF key.v + 1 \in 1..Len(obj.v) THEN Ret(PyStr(<<obj.v[key.v + 1]>>))
        ELSE Raise("IndexError")
    ELSE Raise("TypeError")

RECURSIVE GetPath(_, _)
\* obj[k1][k2]...[kn], left to right, the first failure ending the chain
GetPath(obj, keys) ==
    IF keys = <<>> THEN Ret(obj)
    ELSE
        LET r == GetItem(obj, Head(keys)) IN
        IF r.exc # "None" THEN r ELSE GetPath(r.val, Tail(keys))

---------------------------------------------------------------------------
(* The client and the low-level helpers *)

\* What a call did and how it ended: the requests it sent, the steps it
\* ran, what _format_response yielded if it ran, and the result.
NotDecoded == [exc |-> "NotRun", val |-> PyNone]

Effect(r, reqs, trace, dec) ==
    [exc |-> r.exc, val |-> r.val, sent |-> reqs, steps |-> trace, decoded |-> dec]

\* Redfin.__init__ with the default headers
DefaultHeaders == [k \in {"user-agent"} |-> <<>>]

Redfin(headers) == [base |-> L_base, headers |-> headers]

\* requests.Response as the program reads it: status_code, text, content.
\* Bodies are ASCII, so text and content hold the same characters.
Response(net) == [t |-> "Response", v |-> [status_code |-> net.status_code, body |-> net.body]]

Text(resp) == resp.v.body

Content(resp) == PyBytes(resp.v.body)

\* a status check that lets the server errors through
RaisesForClientErrorOnly(status_code) == 400 <= status_code /\ status_code < 500

\* Response.raise_for_status raises HTTPError for 4xx and 5xx, and for
\* nothing else
RaisesForStatus(status_code) == 400 <= status_code /\ status_code < 600

\* a request that is sent once more when the status check fails
RedfinRequestRetrying(self, url, params, net) ==
    LET req == [url |-> self.base \o url, params |-> params, headers |-> self.headers] IN
    IF net.failed THEN
        Effect(Raise("ConnectionError"), <<req>>, <<"requests.get">>, NotDecoded)
    ELSE IF RaisesForStatus(net.status_code) THEN
        Effect(Raise("HTTPError"), <<req, req>>,
               <<"requests.get", "raise_for_status", "requests.get", "raise_for_status">>,
               NotDecoded)
    ELSE
        Effect(Ret(Response(net)), <<req>>,
               <<"requests.get", "raise_for_status">>, NotDecoded)

\* net is what the network gives to this one GET: a failure, or a status
\* and a body
redfin_request(self, url, params, net) ==
    LET req == [url |-> self.base \o url, params |-> params, headers |-> self.headers] IN
    IF net.failed THEN
        Effect(Raise("ConnectionError"), <<req>>, <<"requests.get">>, NotDecoded)
    ELSE IF RaisesForStatus(net.status_code) THEN
        Effect(Raise("HTTPError"), <<req>>,
               <<"requests.get", "raise_for_status">>, NotDecoded)
    ELSE
        Effect(Ret(Response(net)), <<req>>,
               <<"requests.get", "raise_for_status">>, NotDecoded)

\* s[n:] of Python
SliceFrom(s, n) == SubSeq(s, n + 1, Len(s))

\* a decoder that looks for the preamble before it strips
FormatResponseSniffing(resp) ==
    IF StartsAt(Text(resp), 1, <<"{", "}", "&", "&">>)
    THEN JsonLoads(SliceFrom(Text(resp), 4))
    ELSE JsonLoads(Text(resp))

\* a decoding that checks the text reaches past the preamble
FormatResponseChecked(resp) ==
    IF Len(Text(resp)) < 4 THEN Raise("IndexError")
    ELSE JsonLoads(SliceFrom(Text(resp), 4))

_format_response(resp) == JsonLoads(SliceFrom(Text(resp), 4))

\* the tail shared by the helpers: decode the response of a request that
\* returned, pass on the exception of one that raised
Decode(r) ==
    IF r.exc # "None" THEN r
    ELSE
        LET d == _format_response(r.val) IN
        Effect(d, r.sent, Append(r.steps, "json.loads"), d)

\* the params dict of the caller after the call: page adds pageType to it
ParamsAfter(params, page) ==
    IF page THEN MapSet(params, "pageType", PyInt(3)) ELSE params

\* a query in which accessLevel is protected from the caller
PropertyQueryProtected(params, page) ==
    MapMerge(ParamsAfter(params, page), [k \in {"accessLevel"} |-> PyInt(1)])

\* the query of request_property_data
PropertyQuery(params, page) ==
    MapMerge([k \in {"accessLevel"} |-> PyInt(1)], ParamsAfter(params, page))

request_property_data(self, url, params, page, net) ==
    Decode(redfin_request(self, L_home_details \o url, PropertyQuery(params, page), net))

\* format(x) inside an f-string, for a str or an int >= 0
Fmt(x) == IF x.t = "int" THEN IntToStr(x.v) ELSE x.v

\* a path that takes every falsy property_type (0 too) for a missing one
RegionUrlFalsy(url, region_type, region_id, property_type) ==
    IF PyEq(property_type, PyStr(<<>>)) \/ PyEq(property_type, PyInt(0)) THEN
        L_api_region \o Fmt(region_type) \o <<"/">> \o Fmt(region_id)
            \o <<"/">> \o url
    ELSE
        L_api_region \o Fmt(region_type) \o <<"/">> \o Fmt(region_id)
            \o <<"/">> \o Fmt(property_type) \o <<"/">> \o url

RegionUrl(url, region_type, region_id, property_type) ==
    IF PyEq(property_type, PyStr(<<>>)) THEN
        L_api_region \o Fmt(region_type) \o <<"/">> \o Fmt(region_id)
            \o <<"/">> \o url
    ELSE
        L_api_region \o Fmt(region_type) \o <<"/">> \o Fmt(region_id)
            \o <<"/">> \o Fmt(property_type) \o <<"/">> \o url

request_region_data(self, url, region_type, region_id, property_type, net) ==
    Decode(redfin_request(self, RegionUrl(url, region_type, region_id, property_type),
                          EmptyMap, net))

---------------------------------------------------------------------------
(* The domain methods *)

SearchParams(query, kwargs) ==
    MapMerge([k \in {"location", "v"} |->
                 IF k = "location" THEN PyStr(query) ELSE PyInt(2)], kwargs)

search(self, query, kwargs, net) ==
    Decode(redfin_request(self, L_location_autocomplete, SearchParams(query, kwargs), net))

RECURSIVE SplitFrom(_, _, _, _)
\* the pieces of s from index i on, cur being the piece under way
SplitFrom(s, sep, i, cur) ==
    IF i > Len(s) THEN <<cur>>
    ELSE IF s[i] = sep THEN <<cur>> \o SplitFrom(s, sep, i + 1, <<>>)
    ELSE SplitFrom(s, sep, i + 1, Append(cur, s[i]))

\* s.rsplit(sep, 1): s cut once, at its last sep
RSplitOnce(s, sep) ==
    IF \A i \in 1..Len(s) : s[i] # sep THEN <<s>>
    ELSE
        LET last == CHOOSE i \in 1..Len(s) :
                        s[i] = sep /\ \A j \in (i + 1)..Len(s) : s[j] # sep
        IN  <<SubSeq(s, 1, last - 1), SubSeq(s, last + 1, Len(s))>>

\* s.rsplit(sep) with no limit: s cut at every sep, the pieces left to right
RSplit(s, sep) == SplitFrom(s, sep, 1, <<>>)

RegionIdPath ==
    <<PyStr(K_payload), PyStr(K_sections), PyInt(0), PyStr(K_rows), PyInt(0), PyStr(K_id)>>

get_region_id(search_response) ==
    LET id == GetPath(search_response, RegionIdPath) IN
    IF id.exc # "None" THEN id
    ELSE IF id.val.t # "str" THEN Raise("AttributeError")
    ELSE
        LET pieces == RSplit(id.val.v, "_") IN
        IF Len(pieces) < 2 THEN Raise("IndexError") ELSE Ret(PyStr(pieces[2]))

\* the 24 query parameters of the export, the optional ones at their defaults
TableParams(region_id, region_type) ==
    [k \in {"al", "has_deal", "has_dishwasher", "has_laundry_facility",
            "has_laundry_hookups", "has_parking", "has_pool",
            "has_short_term_lease", "include_pending_homes", "isRentals",
            "is_furnished", "market", "num_homes", "ord", "page_number",
            "region_id", "region_type", "sold_within_days", "status",
            "travel_with_traffic", "travel_within_region", "uipt",
            "utilities_included", "v"} |->
        CASE k = "al" -> PyInt(1)
          [] k = "market" -> PyStr(<<"d", "c">>)
          [] k = "num_homes" -> PyInt(5000)
          [] k = "ord" -> PyStr(<<"r", "e", "d", "f", "i", "n", "-", "r", "e", "c", "o", "m", "m", "e", "n", "d", "e", "d", "-", "a", "s", "c">>)
          [] k = "page_number" -> PyInt(1)
          [] k = "region_id" -> region_id
          [] k = "region_type" -> region_type
          [] k = "sold_within_days" -> PyInt(1825)
          [] k = "status" -> PyInt(9)
          [] k = "uipt" -> PyStr(<<"1", ",", "2", ",", "3", ",", "4", ",", "5", ",", "6", ",", "7", ",", "8">>)
          [] k = "v" -> PyInt(8)
          [] OTHER -> PyBool(FALSE)]

\* an export that strips the preamble as the JSON endpoints do
GetSearchResultsTableStripped(self, region_id, region_type, net) ==
    LET r == redfin_request(self, L_gis_csv, TableParams(region_id, region_type), net) IN
    IF r.exc # "None" THEN r
    ELSE Effect(Ret(PyBytes(SliceFrom(Text(r.val), 4))), r.sent, r.steps, r.decoded)

get_search_results_table(self, region_id, region_type, net) ==
    LET r == redfin_request(self, L_gis_csv, TableParams(region_id, region_type), net) IN
    IF r.exc # "None" THEN r
    ELSE Effect(Ret(Content(r.val)), r.sent, r.steps, r.decoded)

\* a primary_region that decodes the response as the property methods do
PrimaryRegionDecoded(self, url, net) ==
    Decode(redfin_request(self, L_primaryRegionInfo, [k \in {"path"} |-> PyStr(url)], net))

primary_region(self, url, net) ==
    redfin_request(self, L_primaryRegionInfo, [k \in {"path"} |-> PyStr(url)], net)

shared_region(self, table_id, kwargs, net) ==
    redfin_request(self, L_shared_region_info,
        MapMerge([k \in {"tableId", "regionTypeId", "mapPageTypeId"} |->
                     CASE k = "tableId" -> table_id
                       [] k = "regionTypeId" -> PyInt(2)
                       [] OTHER -> PyInt(1)], kwargs), net)

get_recently_sold(self, region_type, region_id, net) ==
    redfin_request(self, L_recently_sold,
        [k \in {"region_type", "region_id"} |->
            IF k = "region_type" THEN region_type ELSE region_id], net)

\* the params every per-property method builds
PropertyParams(property_id, listing_id) ==
    [k \in {"propertyId", "listingId"} |->
        IF k = "propertyId" THEN property_id ELSE listing_id]

get_property_information(self, property_id, listing_id, net) ==
    request_property_data(self, L_belowTheFold,
                          PropertyParams(property_id, listing_id), FALSE, net)

\* the items a for loop draws from obj, or TypeError; a dict gives its keys
\* (one order is named: every key is a str, and the loop body fails alike)
Iterate(obj) ==
    IF obj.t = "list" THEN Ret(obj.v)
    ELSE IF obj.t = "str" THEN Ret([i \in 1..Len(obj.v) |-> PyStr(<<obj.v[i]>>)])
    ELSE IF obj.t = "dict" THEN
        Ret([i \in 1..Cardinality(DOMAIN obj.v) |-> PyStr(<<>>)])
    ELSE Raise("TypeError")

PhotoUrlPath == <<PyStr(K_photoUrls), PyStr(K_nonFullScreenPhotoUrlCompressed)>>

RECURSIVE AppendPhotoUrlsSkipping(_, _)
\* a loop that passes over the photos that lack the URL
AppendPhotoUrlsSkipping(photos, image_list) ==
    IF photos = <<>> THEN Ret(PyList(image_list))
    ELSE
        LET u == GetPath(Head(photos), <<PyStr(K_photoUrls),
                                         PyStr(K_nonFullScreenPhotoUrlCompressed)>>)
        IN  IF u.exc # "None" THEN AppendPhotoUrlsSkipping(Tail(photos), image_list)
            ELSE AppendPhotoUrlsSkipping(Tail(photos), Append(image_list, u.val))

RECURSIVE AppendPhotoUrls(_, _)
\* the for loop of get_property_images over the photos left, image_list so far
AppendPhotoUrls(photos, image_list) ==
    IF photos = <<>> THEN Ret(PyList(image_list))
    ELSE
        LET u == GetPath(Head(photos), PhotoUrlPath) IN
        IF u.exc # "None" THEN u
        ELSE AppendPhotoUrls(Tail(photos), Append(image_list, u.val))

PhotosPath == <<PyStr(K_payload), PyStr(K_mediaBrowserInfo), PyStr(K_photos)>>

\* the body of get_property_images after the request: from the decoded dict
ImageList(resp) ==
    LET photos == GetPath(resp, PhotosPath) IN
    IF photos.exc # "None" THEN photos
    ELSE
        LET items == Iterate(photos.val) IN
        IF items.exc # "None" THEN items ELSE AppendPhotoUrls(items.val, <<>>)

get_property_images(self, property_id, listing_id, net) ==
    LET r == request_property_data(self, L_aboveTheFold,
                                   PropertyParams(property_id, listing_id), FALSE, net)
    IN  IF r.exc # "None" THEN r
        ELSE Effect(ImageList(r.val), r.sent, r.steps, r.decoded)

---------------------------------------------------------------------------
(* get_property_timeseries_estimate.  The clock is read once per call: the *)
(* 61 reads of datetime.today() of one call are taken to fall in the same  *)
(* calendar month, and only the year and the month of the date reach the   *)
(* labels.  dateutil.relativedelta is taken to be loaded (the source       *)
(* imports dateutil alone and reaches the submodule as its attribute).     *)

\* the %b names of the C locale
MonthAbbr ==
    <<<<"J", "a", "n">>, <<"F", "e", "b">>, <<"M", "a", "r">>, <<"A", "p", "r">>,
      <<"M", "a", "y">>, <<"J", "u", "n">>, <<"J", "u", "l">>, <<"A", "u", "g">>,
      <<"S", "e", "p">>, <<"O", "c", "t">>, <<"N", "o", "v">>, <<"D", "e", "c">>>>

\* %y: the year without its century, two digits
TwoDigitYear(year) == <<Digits[((year % 100) \div 10) + 1], Digits[(year % 10) + 1]>>

\* today - relativedelta(months = months), as [year, month]
MinusMonths(today, months) ==
    LET idx == today.year * 12 + (today.month - 1) - months IN
    [year |-> idx \div 12, month |-> (idx % 12) + 1]

\* date.strftime("%b %y")
StrfMonth(date) == MonthAbbr[date.month] \o <<" ">> \o TwoDigitYear(date.year)

\* list(range(-1, 12 * 5))
MonthRange == [j \in 1..(12 * 5 + 1) |-> j - 2]

Reverse(seq) == [j \in 1..Len(seq) |-> seq[Len(seq) + 1 - j]]

\* the date of the label made for i of month_range
LabelDate(today, i) == MinusMonths(today, i - 1)

\* month_list: the labels for month_range, reversed
MonthList(today) ==
    Reverse([j \in 1..Len(MonthRange) |-> StrfMonth(LabelDate(today, MonthRange[j]))])

\* len(obj)
PyLen(obj) ==
    IF obj.t \in {"list", "str"} THEN Ret(Len(obj.v))
    ELSE IF obj.t = "dict" THEN Ret(Cardinality(DOMAIN obj.v))
    ELSE Raise("TypeError")

RECURSIVE ZipFromEnd(_, _, _, _, _)
\* a zip that lines the estimates up with the last labels, not the first
ZipFromEnd(month_list, estimate_list, i, n, ts) ==
    IF i >= n THEN Ret(PyDict(ts))
    ELSE IF i + 1 > Len(month_list) THEN Raise("IndexError")
    ELSE
        LET e == GetItem(estimate_list, PyInt(i))
            at == IF n <= Len(month_list) THEN Len(month_list) - n + i + 1 ELSE i + 1
        IN  IF e.exc # "None" THEN e
            ELSE ZipFromEnd(month_list, estimate_list, i + 1, n,
                            MapSet(ts, month_list[at], e.val))

RECURSIVE ZipFromClipped(_, _, _, _, _)
\* a zip that stops where the labels end
ZipFromClipped(month_list, estimate_list, i, n, ts) ==
    IF i >= n \/ i + 1 > Len(month_list) THEN Ret(PyDict(ts))
    ELSE
        LET e == GetItem(estimate_list, PyInt(i)) IN
        IF e.exc # "None" THEN e
        ELSE ZipFromClipped(month_list, estimate_list, i + 1, n,
                            MapSet(ts, month_list[i + 1], e.val))

RECURSIVE ZipFrom(_, _, _, _, _)
\* the dict comprehension from i on: month_list[i] is evaluated, then
\* estimate_list[i], then the pair is stored
ZipFrom(month_list, estimate_list, i, n, ts) ==
    IF i >= n THEN Ret(PyDict(ts))
    ELSE IF i + 1 > Len(month_list) THEN Raise("IndexError")
    ELSE
        LET e == GetItem(estimate_list, PyInt(i)) IN
        IF e.exc # "None" THEN e
        ELSE ZipFrom(month_list, estimate_list, i + 1, n,
                     MapSet(ts, month_list[i + 1], e.val))

TimeSeriesPath == <<PyStr(K_payload), PyStr(K_propertyTimeSeries)>>

\* the body of get_property_timeseries_estimate after the request
TimeSeries(resp, today) ==
    LET estimate_list == GetPath(resp, TimeSeriesPath) IN
    IF estimate_list.exc # "None" THEN estimate_list
    ELSE
        LET n == PyLen(estimate_list.val) IN
        IF n.exc # "None" THEN n
        ELSE ZipFrom(MonthList(today), estimate_list.val, 0, n.val, EmptyMap)

get_property_timeseries_estimate(self, property_id, listing_id, net, today) ==
    LET r == request_property_data(self, L_avmHistoricalData,
                                   PropertyParams(property_id, listing_id), FALSE, net)
    IN  IF r.exc # "None" THEN r
        ELSE Effect(TimeSeries(r.val, today), r.sent, r.steps, r.decoded)

---------------------------------------------------------------------------
(* The remote service and the callers: the inputs of the calls *)

MaxIdLen == 4
MaxPhotos == 3
MaxEstimates == 62

\* the 4-character preamble the remote service puts before its JSON
Preamble == <<"{", "}", "&", "&">>

RECURSIVE Dumps(_), DumpItems(_), DumpPairs(_, _)
\* the JSON text the remote service writes for a value
Dumps(x) ==
    CASE x.t = "dict" -> <<"{">> \o DumpPairs(x.v, DOMAIN x.v) \o <<"}">>
      [] x.t = "list" -> <<"[">> \o DumpItems(x.v) \o <<"]">>
      [] x.t = "str" -> <<"\"">> \o x.v \o <<"\"">>
      [] x.t = "int" -> IntToStr(x.v)
      [] x.t = "bool" -> IF x.v THEN <<"t", "r", "u", "e">> ELSE <<"f", "a", "l", "s", "e">>
      [] OTHER -> <<"n", "u", "l", "l">>

DumpItems(items) ==
    IF items = <<>> THEN <<>>
    ELSE IF Len(items) = 1 THEN Dumps(items[1])
    ELSE Dumps(items[1]) \o <<",", " ">> \o DumpItems(Tail(items))

DumpPairs(d, keys) ==
    IF keys = {} THEN <<>>
    ELSE
        LET k == CHOOSE j \in keys : TRUE
            pair == <<"\"">> \o k \o <<"\"", ":">> \o Dumps(d[k])
        IN  IF keys = {k} THEN pair
            ELSE pair \o <<",">> \o DumpPairs(d, keys \ {k})

\* a dict of one item
Dict1(k, x) == PyDict([j \in {k} |-> x])

Statuses == {101, 200, 204, 299, 304, 399, 400, 404, 499, 500, 599, 600}

NetFailure == [failed |-> TRUE, status_code |-> 0, body |-> <<>>]
Net(status_code, body) == [failed |-> FALSE, status_code |-> status_code, body |-> body]

\* bodies of every kind: shorter than the preamble, the preamble alone,
\* JSON behind the preamble, JSON behind other characters, JSON with no
\* preamble, and text that is not JSON
PlainBodies ==
    { <<>>,
      <<"{", "}">>,
      <<"{", "}", "&">>,
      Preamble,
      Preamble \o <<"{", "}">>,
      Preamble \o <<" ", "[", "1", ",", "2", "]", " ">>,
      Preamble \o <<"{", "}", " ", "x">>,
      <<"a", "b", "c", "d", "1", "7">>,
      <<" ", " ", " ", " ", "n", "u", "l", "l">>,
      <<"[", "1", ",", " ", "2", "]">>,
      <<"{", "\"", "a", "\"", ":", "1", "}">>,
      <<"<", "h", "t", "m", "l", ">">> }

PlainNets == {NetFailure} \cup {Net(s, b) : s \in Statuses, b \in PlainBodies}

\* a 200 response carrying each of the payloads
Served(payloads) == {Net(200, Preamble \o Dumps(x)) : x \in payloads}

\* every id of up to MaxIdLen characters over digits and the underscore
Ids == UNION {[1..n -> {"1", "2", "_"}] : n \in 0..MaxIdLen}

SearchPayload(sections) == Dict1(K_payload, Dict1(K_sections, sections))

SearchHit(id) == SearchPayload(PyList(<<Dict1(K_rows, PyList(<<Dict1(K_id, id)>>))>>))

\* what search can decode: a first row with each id, and the payloads
\* that have no first row or no id of the expected kind
SearchResponses ==
    {SearchHit(PyStr(id)) : id \in Ids}
    \cup { SearchHit(PyInt(12)), SearchHit(PyNone),
           SearchPayload(PyList(<<>>)),
           SearchPayload(PyList(<<Dict1(K_rows, PyList(<<>>))>>)),
           SearchPayload(PyList(<<Dict1(K_rows, PyList(<<PyDict(EmptyMap)>>))>>)),
           SearchPayload(PyList(<<PyDict(EmptyMap)>>)),
           SearchPayload(PyList(<<Dict1(K_rows, PyList(<<>>)),
                                  Dict1(K_rows, PyList(<<Dict1(K_id, PyStr(<<"2", "_", "1">>))>>))>>)),
           SearchPayload(PyDict(EmptyMap)),
           SearchPayload(PyNone),
           Dict1(K_payload, PyDict(EmptyMap)),
           PyDict(EmptyMap), PyList(<<>>), PyNone }

PhotoUrls == {<<"u", "1">>, <<"u", "2">>}

\* a photo entry with its compressed URL, one with other URLs only, and
\* one with no photoUrls at all
PhotoEntries ==
    {Dict1(K_photoUrls, Dict1(K_nonFullScreenPhotoUrlCompressed, PyStr(u))) : u \in PhotoUrls}
    \cup {Dict1(K_photoUrls, PyDict(EmptyMap)), PyDict(EmptyMap)}

PhotoLists == UNION {[1..n -> PhotoEntries] : n \in 0..MaxPhotos}

ImagePayload(info) == Dict1(K_payload, Dict1(K_mediaBrowserInfo, info))

ImagePayloads ==
    {ImagePayload(Dict1(K_photos, PyList(photos))) : photos \in PhotoLists}
    \cup { ImagePayload(PyDict(EmptyMap)),
           ImagePayload(Dict1(K_photos, PyNone)),
           ImagePayload(Dict1(K_photos, PyDict(EmptyMap))),
           ImagePayload(Dict1(K_photos, Dict1(K_id, PyInt(1)))),
           ImagePayload(Dict1(K_photos, PyStr(<<"u", "1">>))),
           Dict1(K_payload, PyDict(EmptyMap)),
           PyDict(EmptyMap) }

\* the estimates of the remote series: numbers, all different, and nulls
Estimates(n) == [i \in 1..n |-> IF i % 4 = 0 THEN PyNone ELSE PyInt(1000 + i)]

SeriesPayload(series) == Dict1(K_payload, Dict1(K_propertyTimeSeries, series))

SeriesPayloads ==
    {SeriesPayload(PyList(Estimates(n))) : n \in 0..MaxEstimates}
    \cup { SeriesPayload(PyNone), SeriesPayload(PyDict(EmptyMap)),
           SeriesPayload(Dict1(K_id, PyInt(1))),
           SeriesPayload(PyStr(<<"a", "b">>)),
           Dict1(K_payload, PyDict(EmptyMap)) }

\* what the network may do with the one request of a call to each method
SearchNets == PlainNets \cup Served(SearchResponses)
ImageNets == PlainNets \cup Served(ImagePayloads)
SeriesNets == PlainNets \cup Served(SeriesPayloads)

\* the dates of the calls: the first and the last months of a year, and of
\* one whose labels cross the century
Clocks == [year : {2024, 2099}, month : {1, 2, 11, 12}]
NotRead == [year |-> 0, month |-> 0]

PropertyIds == {PyInt(9701815), PyStr(<<"4", "2">>)}
ListingIds == {PyStr(<<>>), PyInt(104431105)}
RegionTypes == {PyInt(2), PyStr(<<"6">>)}
RegionIds == {PyInt(8729), PyStr(<<"1", "6", "1", "6", "3">>)}
PropertyTypes == {PyStr(<<>>), PyInt(0), PyInt(1), PyStr(<<"0">>), PyStr(<<"3">>)}
Queries == {<<"1", "2", "5", "5", "3">>, <<>>}
HomePaths == {<<"/", "N", "Y", "/", "h", "o", "m", "e", "/", "5">>}

\* params a caller hands to request_property_data
CallerParams ==
    { EmptyMap,
      [k \in {"propertyId"} |-> PyInt(9701815)],
      [k \in {"accessLevel"} |-> PyInt(2)],
      [k \in {"accessLevel", "propertyId"} |->
          IF k = "accessLevel" THEN PyStr(<<"3">>) ELSE PyInt(9701815)],
      [k \in {"pageType"} |-> PyInt(1)] }

\* extra keyword arguments of search and shared_region
Kwargs == {EmptyMap, [k \in {"v"} |-> PyInt(3)], [k \in {"count"} |-> PyInt(10)]}

---------------------------------------------------------------------------
(* The state machine.  The client is synchronous and single-threaded: a    *)
(* caller makes one call, which runs to its return or its exception, takes *)
(* the result, and is then free to make the next call.  One action per     *)
(* public method models the whole call; TakeResult ends it.  What a call   *)
(* received and computed is local to it and is gone once it has ended.     *)

\* the client the calls are made on
\* the object id of the dict made once, when __init__ is defined, as the
\* default of headers
DefaultObject == 0

\* a client as the methods see it: the reference in self.headers resolved
Self(c) == Redfin(heap[clients[c].headers])

Client == Redfin(DefaultHeaders)

NoArgs == [none |-> TRUE]

Init ==
    /\ method = "idle"
    /\ args = NoArgs
    /\ now = NotRead
    /\ sent = <<>>
    /\ replies = <<>>
    /\ steps = <<>>
    /\ decoded = NotDecoded
    /\ outcome = Ret(PyNone)
    /\ heap = [o \in {DefaultObject} |-> DefaultHeaders]
    /\ clients = <<[headers |-> DefaultObject, built |-> DefaultHeaders]>>
    /\ touched = {}
    /\ held = EmptyMap
    /\ given = EmptyMap

RedfinRequest ==
    /\ method = "idle"
    /\ \E url \in {L_trends, L_gis_csv}, params \in Kwargs, net \in PlainNets :
        LET eff == redfin_request(Client, url, params, net) IN
        /\ method' = "redfin_request"
        /\ args' = [url |-> url, params |-> params]
        /\ now' = NotRead
        /\ replies' = <<net>>
        /\ sent' = eff.sent
        /\ steps' = eff.steps
        /\ decoded' = eff.decoded
        /\ outcome' = [exc |-> eff.exc, val |-> eff.val]
        /\ UNCHANGED objects

RequestPropertyData ==
    /\ method = "idle"
    /\ \E url \in {L_belowTheFold}, params \in CallerParams, page \in BOOLEAN,
         net \in PlainNets :
        LET eff == request_property_data(Client, url, params, page, net) IN
        /\ method' = "request_property_data"
        /\ args' = [url |-> url, params |-> params, page |-> page]
        /\ now' = NotRead
        /\ replies' = <<net>>
        /\ sent' = eff.sent
        /\ steps' = eff.steps
        /\ decoded' = eff.decoded
        /\ outcome' = [exc |-> eff.exc, val |-> eff.val]
        /\ UNCHANGED objects

RequestRegionData ==
    /\ method = "idle"
    /\ \E url \in {L_trends}, region_type \in RegionTypes, region_id \in RegionIds,
         property_type \in PropertyTypes, net \in PlainNets :
        LET eff == request_region_data(Client, url, region_type, region_id,
                                       property_type, net) IN
        /\ method' = "request_region_data"
        /\ args' = [url |-> url, region_type |-> region_type, region_id |-> region_id,
                    property_type |-> property_type]
        /\ now' = NotRead
        /\ replies' = <<net>>
        /\ sent' = eff.sent
        /\ steps' = eff.steps
        /\ decoded' = eff.decoded
        /\ outcome' = [exc |-> eff.exc, val |-> eff.val]
        /\ UNCHANGED objects

Search ==
    /\ method = "idle"
    /\ \E query \in Queries, kwargs \in Kwargs,
         net \in SearchNets :
        LET eff == search(Client, query, kwargs, net) IN
        /\ method' = "search"
        /\ args' = [query |-> query, kwargs |-> kwargs]
        /\ now' = NotRead
        /\ replies' = <<net>>
        /\ sent' = eff.sent
        /\ steps' = eff.steps
        /\ decoded' = eff.decoded
        /\ outcome' = [exc |-> eff.exc, val |-> eff.val]
        /\ UNCHANGED objects

GetRegionId ==
    /\ method = "idle"
    /\ \E search_response \in SearchResponses :
        LET eff == Effect(get_region_id(search_response), <<>>, <<>>, NotDecoded) IN
        /\ method' = "get_region_id"
        /\ args' = [search_response |-> search_response]
        /\ now' = NotRead
        /\ replies' = <<>>
        /\ sent' = eff.sent
        /\ steps' = eff.steps
        /\ decoded' = eff.decoded
        /\ outcome' = [exc |-> eff.exc, val |-> eff.val]
        /\ UNCHANGED objects

GetSearchResultsTable ==
    /\ method = "idle"
    /\ \E region_id \in RegionIds, region_type \in RegionTypes, net \in PlainNets :
        LET eff == get_search_results_table(Client, region_id, region_type, net) IN
        /\ method' = "get_search_results_table"
        /\ args' = [region_id |-> region_id, region_type |-> region_type]
        /\ now' = NotRead
        /\ replies' = <<net>>
        /\ sent' = eff.sent
        /\ steps' = eff.steps
        /\ decoded' = eff.decoded
        /\ outcome' = [exc |-> eff.exc, val |-> eff.val]
        /\ UNCHANGED objects

PrimaryRegion ==
    /\ method = "idle"
    /\ \E url \in HomePaths, net \in PlainNets :
        LET eff == primary_region(Client, url, net) IN
        /\ method' = "primary_region"
        /\ args' = [url |-> url]
        /\ now' = NotRead
        /\ replies' = <<net>>
        /\ sent' = eff.sent
        /\ steps' = eff.steps
        /\ decoded' = eff.decoded
        /\ outcome' = [exc |-> eff.exc, val |-> eff.val]
        /\ UNCHANGED objects

SharedRegion ==
    /\ method = "idle"
    /\ \E table_id \in RegionIds, kwargs \in Kwargs, net \in PlainNets :
        LET eff == shared_region(Client, table_id, kwargs, net) IN
        /\ method' = "shared_region"
        /\ args' = [table_id |-> table_id, kwargs |-> kwargs]
        /\ now' = NotRead
        /\ replies' = <<net>>
        /\ sent' = eff.sent
        /\ steps' = eff.steps
        /\ decoded' = eff.decoded
        /\ outcome' = [exc |-> eff.exc, val |-> eff.val]
        /\ UNCHANGED objects

GetRecentlySold ==
    /\ method = "idle"
    /\ \E region_type \in RegionTypes, region_id \in RegionIds, net \in PlainNets :
        LET eff == get_recently_sold(Client, region_type, region_id, net) IN
        /\ method' = "get_recently_sold"
        /\ args' = [region_type |-> region_type, region_id |-> region_id]
        /\ now' = NotRead
        /\ replies' = <<net>>
        /\ sent' = eff.sent
        /\ steps' = eff.steps
        /\ decoded' = eff.decoded
        /\ outcome' = [exc |-> eff.exc, val |-> eff.val]
        /\ UNCHANGED objects

GetPropertyInformation ==
    /\ method = "idle"
    /\ \E property_id \in PropertyIds, listing_id \in ListingIds, net \in PlainNets :
        LET eff == get_property_information(Client, property_id, listing_id, net) IN
        /\ method' = "get_property_information"
        /\ args' = [property_id |-> property_id, listing_id |-> listing_id]
        /\ now' = NotRead
        /\ replies' = <<net>>
        /\ sent' = eff.sent
        /\ steps' = eff.steps
        /\ decoded' = eff.decoded
        /\ outcome' = [exc |-> eff.exc, val |-> eff.val]
        /\ UNCHANGED objects

GetPropertyImages ==
    /\ method = "idle"
    /\ \E property_id \in PropertyIds, listing_id \in ListingIds,
         net \in ImageNets :
        LET eff == get_property_images(Client, property_id, listing_id, net) IN
        /\ method' = "get_property_images"
        /\ args' = [property_id |-> property_id, listing_id |-> listing_id]
        /\ now' = NotRead
        /\ replies' = <<net>>
        /\ sent' = eff.sent
        /\ steps' = eff.steps
        /\ decoded' = eff.decoded
        /\ outcome' = [exc |-> eff.exc, val |-> eff.val]
        /\ UNCHANGED objects

GetPropertyTimeseriesEstimate ==
    /\ method = "idle"
    /\ \E property_id \in {PyInt(9701815)}, listing_id \in {PyStr(<<>>)}, today \in Clocks,
         net \in SeriesNets :
        LET eff == get_property_timeseries_estimate(Client, property_id, listing_id,
                                                    net, today) IN
        /\ method' = "get_property_timeseries_estimate"
        /\ args' = [property_id |-> property_id, listing_id |-> listing_id]
        /\ now' = today
        /\ replies' = <<net>>
        /\ sent' = eff.sent
        /\ steps' = eff.steps
        /\ decoded' = eff.decoded
        /\ outcome' = [exc |-> eff.exc, val |-> eff.val]
        /\ UNCHANGED objects

TakeResult ==
    /\ method # "idle"
    /\ method' = "idle"
    /\ args' = NoArgs
    /\ now' = NotRead
    /\ sent' = <<>>
    /\ replies' = <<>>
    /\ steps' = <<>>
    /\ decoded' = NotDecoded
    /\ outcome' = Ret(PyNone)
    /\ UNCHANGED objects

Next ==
    \/ RedfinRequest
    \/ RequestPropertyData
    \/ RequestRegionData
    \/ Search
    \/ GetRegionId
    \/ GetSearchResultsTable
    \/ PrimaryRegion
    \/ SharedRegion
    \/ GetRecentlySold
    \/ GetPropertyInformation
    \/ GetPropertyImages
    \/ GetPropertyTimeseriesEstimate
    \/ TakeResult

Spec == Init /\ [][Next]_vars

---------------------------------------------------------------------------
(* Several clients: the objects their headers refer to *)

MaxClients == 2

\* what belongs to one call
call == <<method, args, now, sent, replies, steps, decoded, outcome>>

\* the dicts a caller passes as headers, each made for that one client
CallerHeaders == {EmptyMap, [k \in {"user-agent"} |-> <<"m">>]}

\* the values a caller assigns to a header of a client
NewValues == {<<"x">>, <<"y">>}

ClientNets == {NetFailure, Net(200, Preamble \o <<"{", "}">>), Net(404, <<>>)}

\* Redfin(): self.headers refers to the one default dict
RedfinDefault ==
    /\ method = "idle"
    /\ Len(clients) < MaxClients
    /\ clients' = Append(clients, [headers |-> DefaultObject,
                                   built |-> heap[DefaultObject]])
    /\ UNCHANGED <<heap, touched, held, given>>
    /\ UNCHANGED call

\* Redfin(headers = {...}): self.headers refers to the dict handed in
RedfinWithHeaders ==
    /\ method = "idle"
    /\ Len(clients) < MaxClients
    /\ \E headers \in CallerHeaders :
        LET o == Cardinality(DOMAIN heap) IN
        /\ heap' = [x \in DOMAIN heap \cup {o} |-> IF x = o THEN headers ELSE heap[x]]
        /\ clients' = Append(clients, [headers |-> o, built |-> headers])
    /\ UNCHANGED <<touched, held, given>>
    /\ UNCHANGED call

\* client.headers["user-agent"] = value, done by the owner of client c
SetHeader ==
    /\ method = "idle"
    /\ \E c \in 1..Len(clients), value \in NewValues :
        /\ heap' = [heap EXCEPT ![clients[c].headers] = MapSet(@, "user-agent", value)]
        /\ touched' = touched \cup {c}
    /\ UNCHANGED <<clients, held, given>>
    /\ UNCHANGED call

\* client c sends a request
ClientRequest ==
    /\ method = "idle"
    /\ \E c \in 1..Len(clients), net \in ClientNets :
        LET eff == redfin_request(Self(c), L_trends, EmptyMap, net) IN
        /\ method' = "redfin_request"
        /\ args' = [client |-> c, url |-> L_trends, params |-> EmptyMap]
        /\ now' = NotRead
        /\ replies' = <<net>>
        /\ sent' = eff.sent
        /\ steps' = eff.steps
        /\ decoded' = eff.decoded
        /\ outcome' = [exc |-> eff.exc, val |-> eff.val]
    /\ UNCHANGED objects

NextClients ==
    \/ RedfinDefault
    \/ RedfinWithHeaders
    \/ SetHeader
    \/ ClientRequest
    \/ TakeResult

SpecClients == Init /\ [][NextClients]_vars

---------------------------------------------------------------------------
(* One params dict kept by the caller over several calls *)

ParamsNets ==
    {NetFailure} \cup
    {Net(status, body) : status \in {200, 404},
                         body \in {<<>>, Preamble \o <<"{", "}">>, <<"<", "h", "t", "m", "l", ">">>}}

\* the caller makes a dict to pass as params
NewParams ==
    /\ method = "idle"
    /\ \E params \in CallerParams :
        /\ given' = params
        /\ held' = params
    /\ UNCHANGED <<heap, clients, touched>>
    /\ UNCHANGED call

\* request_property_data(url, held, page): the assignment
\* params["pageType"] = 3 is made in the dict the caller handed in, before
\* the request is sent
RequestPropertyDataHeld ==
    /\ method = "idle"
    /\ \E url \in {L_belowTheFold}, page \in BOOLEAN, net \in ParamsNets :
        LET eff == request_property_data(Client, url, held, page, net) IN
        /\ method' = "request_property_data"
        /\ args' = [url |-> url, params |-> held, page |-> page]
        /\ now' = NotRead
        /\ replies' = <<net>>
        /\ sent' = eff.sent
        /\ steps' = eff.steps
        /\ decoded' = eff.decoded
        /\ outcome' = [exc |-> eff.exc, val |-> eff.val]
        /\ held' = ParamsAfter(held, page)
    /\ UNCHANGED <<heap, clients, touched, given>>

NextParams ==
    \/ NewParams
    \/ RequestPropertyDataHeld
    \/ TakeResult

SpecParams == Init /\ [][NextParams]_vars

---------------------------------------------------------------------------
(* Properties *)

\* the call under way sent a request and the network answered it
Answered == replies # <<>> /\ ~replies[1].failed

\* the status and the body of that answer
Status == replies[1].status_code
Body == replies[1].body

\* the methods that hand the response to _format_response
DecodingMethods ==
    {"request_property_data", "request_region_data", "search",
     "get_property_information", "get_property_images",
     "get_property_timeseries_estimate"}

\* the methods that return what _format_response yields, as it is
PlainDecodingMethods ==
    {"request_property_data", "request_region_data", "search",
     "get_property_information"}

\* s without its first 4 characters, nothing if it has no more than 4
AfterFour(s) == [i \in 1..(IF Len(s) > 4 THEN Len(s) - 4 ELSE 0) |-> s[i + 4]]

\* C1: whenever the status check of a decoding method has passed,
\* _format_response yields json.loads of the body text without its first 4
\* characters, whatever these are; the methods that only decode return
\* that value (or raise that error).
C1_DecodeDropsFirstFour ==
    (method \in DecodingMethods /\ Answered /\ outcome.exc # "HTTPError") =>
        /\ decoded = JsonLoads(AfterFour(Body))
        /\ method \in PlainDecodingMethods => outcome = decoded

\* C1 witness: a body whose first 4 characters are not the preamble is
\* decoded from its fifth character on
C1_Witness ==
    /\ method = "search"
    /\ Answered /\ Status = 200
    /\ Body = <<"a", "b", "c", "d", "1", "7">>
    /\ outcome = Ret(PyInt(17))

\* C2 as stated: every status outside 200..299 makes the call raise
\* HTTPError with no JSON parsing and no value returned.
C2_EveryNon2xxRaises ==
    (Answered /\ Status \notin 200..299) =>
        /\ outcome.exc = "HTTPError"
        /\ decoded = NotDecoded
        /\ \A i \in 1..Len(steps) : steps[i] # "json.loads"

\* C2 amended: a 4xx or 5xx status makes the call raise HTTPError at once,
\* with no JSON parsing and no value; an answer with any other status
\* (1xx, 2xx, 3xx) never raises HTTPError, and a decoding method goes on
\* to decode its body.
C2_ErrorStatusRaises ==
    /\ (Answered /\ Status \in 400..599) =>
        /\ outcome = Raise("HTTPError")
        /\ decoded = NotDecoded
        /\ steps = <<"requests.get", "raise_for_status">>
    /\ (Answered /\ Status \notin 400..599) =>
        /\ outcome.exc # "HTTPError"
        /\ method \in DecodingMethods => decoded # NotDecoded

\* C2 witness: a 500 answer to a domain method ended the call with HTTPError
C2_Witness ==
    /\ method = "get_property_images"
    /\ Answered /\ Status = 500
    /\ outcome = Raise("HTTPError")

\* the query of the request the call sent
Query == sent[1].params

\* C3 as stated: the query of request_property_data always has
\* accessLevel = 1, whatever the caller's params hold.
C3_AccessLevelAlwaysOne ==
    method = "request_property_data" => Query["accessLevel"] = PyInt(1)

\* C3 amended: the query of request_property_data always holds accessLevel;
\* it is 1 when the caller's params hold no accessLevel key, and the
\* caller's own value when they do.
C3_AccessLevelDefaultsToOne ==
    method = "request_property_data" =>
        /\ "accessLevel" \in DOMAIN Query
        /\ Query["accessLevel"] =
              IF "accessLevel" \in DOMAIN args.params
              THEN args.params["accessLevel"] ELSE PyInt(1)

\* C3 witness: a caller's accessLevel = 2 went out in the query
C3_Witness ==
    /\ method = "request_property_data"
    /\ "accessLevel" \in DOMAIN args.params
    /\ args.params["accessLevel"] = PyInt(2)
    /\ Query["accessLevel"] = PyInt(2)

\* the path of the request the call sent: its URL without the base
SentPath == SubSeq(sent[1].url, Len(L_base) + 1, Len(sent[1].url))

\* the text of a str or of an int in a path
Segment(x) == IF x.t = "str" THEN x.v ELSE IntToStr(x.v)

\* C4: request_region_data sends api/region/{T}/{R}/{suffix} when
\* property_type is the empty string and api/region/{T}/{R}/{P}/{suffix}
\* for every other property_type (0 included), with no query parameters.
C4_RegionPath ==
    method = "request_region_data" =>
        LET head == L_api_region \o Segment(args.region_type) \o <<"/">>
                        \o Segment(args.region_id) \o <<"/">>
        IN  /\ sent[1].url = L_base \o SentPath
            /\ Query = EmptyMap
            /\ args.property_type = PyStr(<<>>) => SentPath = head \o args.url
            /\ args.property_type # PyStr(<<>>) =>
                  SentPath = head \o Segment(args.property_type) \o <<"/">> \o args.url

\* C4 witness: property_type = 0 is a path segment of its own
C4_Witness ==
    /\ method = "request_region_data"
    /\ args.property_type = PyInt(0)
    /\ args.region_type = PyInt(2) /\ args.region_id = PyInt(8729)
    /\ SentPath = <<"a", "p", "i", "/", "r", "e", "g", "i", "o", "n", "/", "2", "/",
                    "8", "7", "2", "9", "/", "0", "/", "t", "r", "e", "n", "d", "s">>

\* whether obj is a dict that holds key k
HasKey(obj, k) == obj.t = "dict" /\ k \in DOMAIN obj.v

\* the search_response of the call has a first row whose id is a str
HasIdRow ==
    LET r == args.search_response IN
    /\ HasKey(r, K_payload) /\ HasKey(r.v[K_payload], K_sections)
    /\ r.v[K_payload].v[K_sections].t = "list"
    /\ r.v[K_payload].v[K_sections].v # <<>>
    /\ HasKey(r.v[K_payload].v[K_sections].v[1], K_rows)
    /\ r.v[K_payload].v[K_sections].v[1].v[K_rows].t = "list"
    /\ r.v[K_payload].v[K_sections].v[1].v[K_rows].v # <<>>
    /\ HasKey(r.v[K_payload].v[K_sections].v[1].v[K_rows].v[1], K_id)
    /\ r.v[K_payload].v[K_sections].v[1].v[K_rows].v[1].v[K_id].t = "str"

\* that id
RowId == args.search_response.v[K_payload].v[K_sections].v[1].v[K_rows].v[1].v[K_id].v

Underscores(s) == {i \in 1..Len(s) : s[i] = "_"}

\* the least member of a non-empty set of numbers
Least(S) == CHOOSE i \in S : \A j \in S : i <= j

\* C5 as stated: for an id with at least one '_', get_region_id returns
\* everything after the first '_'.
C5_SuffixAfterFirstUnderscore ==
    (method = "get_region_id" /\ HasIdRow /\ Underscores(RowId) # {}) =>
        outcome = Ret(PyStr(SubSeq(RowId, Least(Underscores(RowId)) + 1, Len(RowId))))

\* C5 amended: for an id with at least one '_', get_region_id returns the
\* part between the first '_' and the next one, which is the whole suffix
\* when the id has exactly one '_'.
C5_SegmentAfterFirstUnderscore ==
    (method = "get_region_id" /\ HasIdRow /\ Underscores(RowId) # {}) =>
        LET first == Least(Underscores(RowId))
            later == {i \in Underscores(RowId) : i > first}
            stop == IF later = {} THEN Len(RowId) + 1 ELSE Least(later)
        IN  /\ outcome = Ret(PyStr(SubSeq(RowId, first + 1, stop - 1)))
            /\ Cardinality(Underscores(RowId)) = 1 =>
                  outcome = Ret(PyStr(SubSeq(RowId, first + 1, Len(RowId))))

\* C5 witness: of an id with two underscores only the middle part came back
C5_Witness ==
    /\ method = "get_region_id" /\ HasIdRow
    /\ RowId = <<"1", "_", "2", "_">>
    /\ outcome = Ret(PyStr(<<"2">>))

\* C6: with zero sections, or zero rows in the first section,
\* get_region_id raises an index or key error and returns no value.
C6_NoMatchRaises ==
    LET r == args.search_response
        sections == r.v[K_payload].v[K_sections]
        noSections == sections.v = <<>>
        noRows ==
            /\ sections.v # <<>>
            /\ HasKey(sections.v[1], K_rows)
            /\ sections.v[1].v[K_rows] = PyList(<<>>)
    IN  (/\ method = "get_region_id"
         /\ HasKey(r, K_payload) /\ HasKey(r.v[K_payload], K_sections)
         /\ sections.t = "list"
         /\ noSections \/ noRows) =>
            /\ outcome.exc \in {"IndexError", "KeyError"}
            /\ outcome.val = PyNone

\* C6 witness: a first section with zero rows ended the call with IndexError
C6_Witness ==
    /\ method = "get_region_id"
    /\ args.search_response = SearchPayload(PyList(<<Dict1(K_rows, PyList(<<>>))>>))
    /\ outcome = Raise("IndexError")

\* the decoded payload holds a list under payload.propertyTimeSeries
HasSeries ==
    /\ decoded.exc = "None"
    /\ HasKey(decoded.val, K_payload)
    /\ HasKey(decoded.val.v[K_payload], K_propertyTimeSeries)
    /\ decoded.val.v[K_payload].v[K_propertyTimeSeries].t = "list"

\* that list
Series == decoded.val.v[K_payload].v[K_propertyTimeSeries].v

\* the number of labels the method generates
LabelCount == 61

\* C7: for an estimate list of length n <= 61 the result has exactly n
\* entries, and entry i maps the i-th generated label to the i-th estimate;
\* the labels are those of the date of the call, whatever n is.
C7_PositionalZip ==
    (method = "get_property_timeseries_estimate" /\ HasSeries
        /\ Len(Series) <= LabelCount) =>
        /\ outcome.exc = "None"
        /\ outcome.val.t = "dict"
        /\ Len(MonthList(now)) = LabelCount
        /\ Cardinality(DOMAIN outcome.val.v) = Len(Series)
        /\ DOMAIN outcome.val.v = {MonthList(now)[i] : i \in 1..Len(Series)}
        /\ \A i \in 1..Len(Series) : outcome.val.v[MonthList(now)[i]] = Series[i]

\* C7 witness: a list of 10 estimates gave a mapping of 10 entries
C7_Witness ==
    /\ method = "get_property_timeseries_estimate" /\ HasSeries
    /\ Len(Series) = 10
    /\ outcome.exc = "None"
    /\ Cardinality(DOMAIN outcome.val.v) = 10

\* the labels of the month of the call and of the 60 months before it
PastLabels(today) == {StrfMonth(MinusMonths(today, k)) : k \in 0..(12 * 5)}

\* C8: every key of a returned time series names the month of the call or
\* an earlier month of the 5 years before it, never a later month.
C8_NoFutureMonth ==
    (method = "get_property_timeseries_estimate" /\ outcome.exc = "None") =>
        DOMAIN outcome.val.v \subseteq PastLabels(now)

\* the decoded payload holds a list under payload.mediaBrowserInfo.photos
HasPhotos ==
    /\ decoded.exc = "None"
    /\ HasKey(decoded.val, K_payload)
    /\ HasKey(decoded.val.v[K_payload], K_mediaBrowserInfo)
    /\ HasKey(decoded.val.v[K_payload].v[K_mediaBrowserInfo], K_photos)
    /\ decoded.val.v[K_payload].v[K_mediaBrowserInfo].v[K_photos].t = "list"

\* that list
Photos == decoded.val.v[K_payload].v[K_mediaBrowserInfo].v[K_photos].v

\* a photo entry holds photoUrls.nonFullScreenPhotoUrlCompressed
HasUrl(photo) ==
    /\ HasKey(photo, K_photoUrls)
    /\ HasKey(photo.v[K_photoUrls], K_nonFullScreenPhotoUrlCompressed)

\* C9: get_property_images returns the compressed URL of every photo, one
\* per entry in the input order; when mediaBrowserInfo or a nested key of
\* any entry is absent it raises a key error and returns no list.
C9_PhotoUrlsInOrder ==
    method = "get_property_images" =>
        /\ (HasPhotos /\ \A i \in 1..Len(Photos) : HasUrl(Photos[i])) =>
              outcome = Ret(PyList([i \in 1..Len(Photos) |->
                  Photos[i].v[K_photoUrls].v[K_nonFullScreenPhotoUrlCompressed]]))
        /\ (HasPhotos /\ \E i \in 1..Len(Photos) : ~HasUrl(Photos[i])) =>
              outcome = Raise("KeyError")
        /\ (decoded.exc = "None" /\ HasKey(decoded.val, K_payload)
                /\ decoded.val.v[K_payload].t = "dict"
                /\ ~HasKey(decoded.val.v[K_payload], K_mediaBrowserInfo)) =>
              outcome = Raise("KeyError")

\* C9 witness: two photos came back as two URLs in the order of the input
C9_Witness ==
    /\ method = "get_property_images" /\ HasPhotos
    /\ Len(Photos) = 2
    /\ outcome = Ret(PyList(<<PyStr(<<"u", "2">>), PyStr(<<"u", "1">>)>>))

\* C10: whenever get_search_results_table returns, it returns the bytes of
\* the response body as they are, with no strip and no JSON parse; it
\* returns for every answer whose status check passed.
C10_TableIsRawBody ==
    (method = "get_search_results_table" /\ Answered) =>
        /\ decoded = NotDecoded
        /\ \A i \in 1..Len(steps) : steps[i] # "json.loads"
        /\ outcome.exc = "None" => outcome.val = PyBytes(Body)
        /\ outcome.exc # "HTTPError" => outcome.exc = "None"

\* C10 witness: a body of 2 bytes came back whole
C10_Witness ==
    /\ method = "get_search_results_table" /\ Answered
    /\ Body = <<"{", "}">>
    /\ outcome = Ret(PyBytes(<<"{", "}">>))

\* the number of GETs among the steps of the call
Gets == Cardinality({i \in 1..Len(steps) : steps[i] = "requests.get"})

\* C12 as stated: every call of a public method, returning or raising,
\* sends exactly one request.
C12_EveryCallSendsOne ==
    method # "idle" => (Len(sent) = 1 /\ Gets = 1)

\* C12 amended: every call of a public method other than get_region_id,
\* returning or raising, sends exactly one request and never a second;
\* get_region_id works on a payload it is handed and sends none.
C12_OneRequestPerRequestingCall ==
    /\ (method \notin {"idle", "get_region_id"}) => (Len(sent) = 1 /\ Gets = 1)
    /\ method = "get_region_id" => (Len(sent) = 0 /\ Gets = 0)

\* C12 witness: a call that raised on a 404 had sent one request
C12_Witness ==
    /\ method = "search"
    /\ Answered /\ Status = 404
    /\ outcome = Raise("HTTPError")
    /\ Len(sent) = 1

\* the domain methods that send a request, but for the export
RequestingDomainMethods ==
    DecodingMethods \cup {"primary_region", "shared_region", "get_recently_sold"}

\* the methods that return what redfin_request returns
RawResponseMethods == {"primary_region", "shared_region", "get_recently_sold"}

\* the decoding ran on the body without its first 4 characters
DecodedFromBody == decoded = JsonLoads(AfterFour(Body))

C14_ShortBodyIsDecodeError ==
    (method \in DecodingMethods /\ Answered /\ Status \in 200..299 /\ Len(Body) < 4) =>
        /\ decoded = Raise("JSONDecodeError")
        /\ outcome = Raise("JSONDecodeError")
        /\ steps = <<"requests.get", "raise_for_status", "json.loads">>

\* C14 witness: a body shorter than 4 characters, with a 2xx status,
\* made the decoding raise
C14_Witness ==
    /\ method = "get_property_information"
    /\ Answered /\ Status = 204
    /\ Body \in {<<>>, <<"{", "}", "&">>}
    /\ outcome = Raise("JSONDecodeError")

\* C16: a time series of more than 61 estimates makes
\* get_property_timeseries_estimate raise IndexError once the request and
\* the decoding have succeeded; a mapping that is returned has as many
\* entries as the estimate list.
C16_LongSeriesRaises ==
    (method = "get_property_timeseries_estimate" /\ HasSeries) =>
        /\ Len(Series) > LabelCount =>
              /\ outcome = Raise("IndexError")
              /\ Len(sent) = 1
              /\ steps = <<"requests.get", "raise_for_status", "json.loads">>
              /\ Answered /\ ~RaisesForStatus(Status)
        /\ outcome.exc = "None" =>
              /\ outcome.val.t = "dict"
              /\ Cardinality(DOMAIN outcome.val.v) = Len(Series)

\* C16 witness: a decoded list of 62 estimates ended in IndexError
C16_Witness ==
    /\ method = "get_property_timeseries_estimate" /\ HasSeries
    /\ Len(Series) = LabelCount + 1
    /\ outcome = Raise("IndexError")

\* C11: a client whose headers its owner never assigned into has the
\* headers it was built with, whatever was done to the headers of other
\* clients, and each of its requests carries them.
C11_HeadersPrivate ==
    /\ \A c \in 1..Len(clients) :
          c \notin touched => heap[clients[c].headers] = clients[c].built
    /\ (method = "redfin_request" /\ "client" \in DOMAIN args
            /\ args.client \notin touched) =>
          sent[1].headers = clients[args.client].built

\* C15: the query of request_property_data holds pageType exactly when
\* that call has page = TRUE or the caller put pageType into the dict, it
\* is 3 when page = TRUE, and the dict the caller keeps has the items the
\* caller gave it.
C15_PageTypeOnlyWhenAsked ==
    method = "request_property_data" =>
        /\ ("pageType" \in DOMAIN Query) <=> (args.page \/ "pageType" \in DOMAIN given)
        /\ args.page => Query["pageType"] = PyInt(3)
        /\ held = given

===========================================================================
